---- MODULE Spec2Model ----
(***************************************************************************)
(* Model of LoopLauncher (src/src/LoopLauncher.cpp, declared in            *)
(* src/unnamed/part_000): a set of Tracks, each holding named clips and an *)
(* active / pending clip pointer, a mixer that renders fixed-size blocks   *)
(* on the audio thread (onGetData) and a control thread that stages        *)
(* pending clips (UpdatePendingClips), polls NeedsAudio, adds tracks and   *)
(* calls Play.  The pending-update map and the needs-audio flag are        *)
(* guarded by m_muTrackUpdate; Track::GetAudio runs without it.            *)
(* Spec is the mixer with its two threads; TrackSpec drives one Track on   *)
(* its own through AddClip, SetPendingTrack and GetAudio, with the samples *)
(* GetAudio reads and the mix-buffer slots it writes; FairSpec is the      *)
(* mixer under fair scheduling of its two threads, RenderSpec the same     *)
(* with render calls that keep coming; ChunkSpec has a clip whose length   *)
(* is no multiple of the mix buffer, and SeedSpec a control thread that    *)
(* also sets pending clips on the tracks themselves (GetTrack).            *)
(***************************************************************************)
EXTENDS Integers, Sequences, FiniteSets, TLC

(***************************************************************************)
(* Bounds of the model and constants of the program.                       *)
(***************************************************************************)
\* control-thread operations explored after construction
MaxOps == 3
\* sample count of the ordinary audio files on disk
ClipLen == 64
\* sample count of the file "long"
LongLen == 96
\* sample rate of every audio file on disk
FileRate == 200
\* Initialize sizes the mix buffer to 1/64th of the shortest track
ChunkDivisor == 64
\* AddClip: fade duration in milliseconds
FadeMs == 5
\* sample count of the files "kick", "snare" and "sub"
ShortLen == 8
\* sample rates of "snare" and "sub": with FadeMs they give fade lengths 2
\* and 0 where "kick", at FileRate, gives 1
SnareRate == 400
SubRate == 100
\* Track::AddClip calls that load a file, per track driven on its own
MaxClips == 2
\* the largest nSamplesDesired and nCurSamplePos handed to Track::GetAudio
MaxWindow == 3
MaxPos == 8
\* sample count of the file "xl": three chunks of a 64th do not divide it
UnevenLen == 193

\* a null Clip pointer
NoClip == "nullptr"
\* FirstTrackWith found no track
NoTrack == "notrack"
\* nobody holds m_muTrackUpdate
Unlocked == "unlocked"
\* the name postPendingTracks passes to SetPendingTrack to clear a track
SilenceName == "silence"

\* every string used as a key of a std::map, in the order std::string compares
NameOrder ==
  <<"a", "b", "bass", "drums", "keys", "kick", "long", "missing", "silence",
    "snare", "sub", "x", "xl">>

Rank(s) == CHOOSE i \in 1..Len(NameOrder) : NameOrder[i] = s

\* begin() of a std::map with key set S
First(S) == CHOOSE s \in S : \A t \in S : Rank(s) <= Rank(t)

\* a std::map with no entries
EmptyMap == [n \in {} |-> NoClip]

MapPut(m, k, v) == [n \in DOMAIN m \cup {k} |-> IF n = k THEN v ELSE m[n]]

MaxOf(S) == CHOOSE x \in S : \A y \in S : y <= x

MinOf(S) == CHOOSE x \in S : \A y \in S : x <= y

(***************************************************************************)
(* The audio files on disk (sf::SoundBuffer::loadFromFile).                *)
(***************************************************************************)
AudioFiles == {"a", "b", "kick", "long", "silence", "snare", "sub", "x", "xl"}

LoadFromFile(f) == f \in AudioFiles

SampleCountOf(f) ==
  CASE f = "long" -> LongLen
    [] f = "xl" -> UnevenLen
    [] f \in {"kick", "snare", "sub"} -> ShortLen
    [] OTHER -> ClipLen

SampleRateOf(f) ==
  CASE f = "snare" -> SnareRate
    [] f = "sub" -> SubRate
    [] OTHER -> FileRate

\* the range of sf::Int16
Int16Min == -32768

Int16Max == 32767

\* getSamples()[i] of a loaded file, for 0 <= i < SampleCountOf(f): small
\* values of both signs and parities, and the two ends of the sample range
Samples(f, i) ==
  LET k == (7 * i + 9 * Rank(f)) % 11
  IN  CASE k = 0 -> Int16Max
        [] k = 10 -> Int16Min
        [] OTHER -> k - 5

(***************************************************************************)
(* Track                                                                   *)
(***************************************************************************)
\* Track::Track(): m_pPendingTrack is the active clip, m_pPendingClip the
\* pending one
NewTrack ==
  [m_nFadeSamples |-> 0, m_nSampleCount |-> 0, m_mapClips |-> {},
   m_pPendingTrack |-> NoClip, m_pPendingClip |-> NoClip]

AddClipResult(t, f) == LoadFromFile(f)

AddClip(t, f) ==
  IF LoadFromFile(f)
  THEN [t EXCEPT
          !.m_nSampleCount = IF @ = 0 THEN SampleCountOf(f) ELSE @,
          !.m_nFadeSamples = IF @ = 0 THEN (FadeMs * SampleRateOf(f)) \div 1000 ELSE @,
          !.m_mapClips = @ \cup {f}]
  ELSE t

RECURSIVE AddClips(_, _)
AddClips(t, files) ==
  IF files = <<>> THEN t ELSE AddClips(AddClip(t, Head(files)), Tail(files))

\* Track::Track( std::list<std::string> )
TrackCtor(files) == AddClips(NewTrack, files)

GetSampleCount(t) ==
  IF t.m_mapClips = {} THEN 1 ELSE SampleCountOf(First(t.m_mapClips))

HasClip(t, clipName) == clipName \in t.m_mapClips

SetPendingTrackResult(t, name) == name \in t.m_mapClips

\* mutant: a name the track does not hold leaves the pending clip as it is
SetPendingTrack_KeepOnMiss(t, name) ==
  IF name \in t.m_mapClips THEN [t EXCEPT !.m_pPendingClip = name] ELSE t

\* mutant: asking again for the clip that is pending withdraws it
SetPendingTrack_Toggle(t, name) ==
  IF name \in t.m_mapClips /\ t.m_pPendingClip # name
  THEN [t EXCEPT !.m_pPendingClip = name]
  ELSE [t EXCEPT !.m_pPendingClip = NoClip]

SetPendingTrack(t, name) ==
  IF name \in t.m_mapClips
  THEN [t EXCEPT !.m_pPendingClip = name]
  ELSE [t EXCEPT !.m_pPendingClip = NoClip]

\* mutant: a track with neither clip starts on the first clip it holds
GetAudioBootstrap_FirstClip(t) ==
  IF t.m_pPendingTrack = NoClip /\ t.m_pPendingClip # NoClip
  THEN [t EXCEPT !.m_pPendingTrack = t.m_pPendingClip]
  ELSE IF t.m_pPendingTrack = NoClip /\ t.m_mapClips # {}
  THEN [t EXCEPT !.m_pPendingTrack = First(t.m_mapClips)]
  ELSE t

\* mutant: the bootstrap takes the pending clip away
GetAudioBootstrap_Consume(t) ==
  IF t.m_pPendingTrack = NoClip /\ t.m_pPendingClip # NoClip
  THEN [t EXCEPT !.m_pPendingTrack = t.m_pPendingClip, !.m_pPendingClip = NoClip]
  ELSE t

\* GetAudio, lines 125-129: first-render bootstrap
GetAudioBootstrap(t) ==
  IF t.m_pPendingTrack = NoClip /\ t.m_pPendingClip # NoClip
  THEN [t EXCEPT !.m_pPendingTrack = t.m_pPendingClip]
  ELSE t

\* mutant: the window must pass the end of the clip, not just reach it
GetAudioLoops_Strict(t, nSamplesDesired, nCurSamplePos) ==
  LET cnt == SampleCountOf(t.m_pPendingTrack)
      sampleOffset == nCurSamplePos % cnt
  IN  sampleOffset + nSamplesDesired > cnt

\* mutant: a window never counts as crossing the end of the clip
GetAudioLoops_Never(t, nSamplesDesired, nCurSamplePos) == FALSE

\* GetAudio, lines 135-140: bLoop of a track whose active clip is set
GetAudioLoops(t, nSamplesDesired, nCurSamplePos) ==
  LET cnt == SampleCountOf(t.m_pPendingTrack)
      sampleOffset == nCurSamplePos % cnt
  IN  sampleOffset + nSamplesDesired >= cnt

\* mutant: the promotion also consumes the pending clip
GetAudioPromote_Consume(t) ==
  [t EXCEPT !.m_pPendingTrack = t.m_pPendingClip, !.m_pPendingClip = NoClip]

\* mutant: with no pending clip the active clip stays active
GetAudioPromote_HoldOnNone(t) ==
  IF t.m_pPendingClip = NoClip THEN t
  ELSE [t EXCEPT !.m_pPendingTrack = t.m_pPendingClip]

\* GetAudio, line 171: the active clip becomes the pending clip
GetAudioPromote(t) == [t EXCEPT !.m_pPendingTrack = t.m_pPendingClip]

\* conversion of a float to sf::Int16 or int: the fraction is dropped
Trunc(num, den) == IF num >= 0 THEN num \div den ELSE -((-num) \div den)

\* ceilf of num / den, den > 0
Ceil(num, den) == -((-num) \div den)

\* conversion of an int to sf::Int16: the value modulo 2^16
Wrap16(x) == ((x - Int16Min) % (Int16Max - Int16Min + 1)) + Int16Min

\* GetAudio, line 146: pMixBuffer[i] += sample * vol_1, the float sum
\* converted back to sf::Int16
AddScaled(mix, sample) == Trunc(2 * mix + sample, 2)

\* mutant: the whole window is copied even when the call loops
LastSample_NoFade(bLoop, nSamplesDesired, nFadeSamples) == nSamplesDesired

\* GetAudio, line 141
LastSample(bLoop, nSamplesDesired, nFadeSamples) ==
  IF bLoop THEN nSamplesDesired - nFadeSamples ELSE nSamplesDesired

\* GetAudio, line 144: the slots the copy loop writes
CopySlots(lastSample) == 0..(lastSample - 1)

\* GetAudio, line 162: the slots the crossfade loop writes
FadeSlots(lastSample, nSamplesDesired) == lastSample..(nSamplesDesired - 1)

\* GetAudio, line 162-164: the value of j used for slot i
FadeIndex(i, lastSample) == i - lastSample + 1

\* mutant: j is incremented after the weight is taken
FadeWeight_PostIncrement(j, nFadeSamples) == <<nFadeSamples - (j - 1), nFadeSamples>>

\* GetAudio, line 164: a = 1 - j / m_nFadeSamples, as numerator and
\* denominator; the fade lengths of the files are 0, 1 and 2, for which
\* the float arithmetic of lines 164-166 is exact
FadeWeight(j, nFadeSamples) == <<nFadeSamples - j, nFadeSamples>>

\* mutant: the weighted sum is converted by dropping its fraction
FadeValue_Truncate(a, sample, nextSample) ==
  Trunc(a[1] * Trunc(sample, 2) + (a[2] - a[1]) * nextSample, a[2])

\* GetAudio, lines 165-166: ceilf( a * val + (1 - a) * nextSample )
FadeValue(a, sample, nextSample) ==
  Ceil(a[1] * Trunc(sample, 2) + (a[2] - a[1]) * nextSample, a[2])

\* the sample pSoundBuf points at when the copy loop is at slot i
CopySource(sampleOffset, i) == sampleOffset + i

\* the sample pSoundBuf points at when the crossfade loop is at slot i: the
\* pointer goes on from where the copy loop, which ran for lastSample slots
\* or not at all, left it
FadeSource(sampleOffset, lastSample, i) ==
  sampleOffset + (IF lastSample > 0 THEN lastSample ELSE 0) + (i - lastSample)

\* *pSoundBuf: past the end of the clip's samples the read is out of bounds
\* and yields whatever lies there
ReadSample(f, idx, garbage) ==
  IF idx < SampleCountOf(f) THEN Samples(f, idx) ELSE garbage

\* Track::GetAudio, lines 113-175, on the mix buffer buf (slots
\* 0..nSamplesDesired-1): the result, the track and the buffer afterwards,
\* and what the call read and wrote; a slot outside the buffer that the call
\* writes is listed in fadeSlots and is not a slot of buf; sums holds, for
\* each slot of buf, the sum before its conversion to sf::Int16
GetAudioRender(t, buf, nSamplesDesired, nCurSamplePos, garbage) ==
  LET t1 == GetAudioBootstrap(t)
  IN  IF t1.m_pPendingTrack = NoClip
      THEN [ret |-> FALSE, track |-> t, buf |-> buf, bLoop |-> FALSE,
            copySlots |-> {}, fadeSlots |-> {}, weights |-> <<>>,
            fadeValues |-> <<>>, sums |-> buf, reads |-> {}]
      ELSE
        LET clip == t1.m_pPendingTrack
            sampleOffset == nCurSamplePos % SampleCountOf(clip)
            bLoop == GetAudioLoops(t1, nSamplesDesired, nCurSamplePos)
            lastSample == LastSample(bLoop, nSamplesDesired, t1.m_nFadeSamples)
            copied == CopySlots(lastSample)
            fadedSlots == IF bLoop THEN FadeSlots(lastSample, nSamplesDesired) ELSE {}
            nextSample == IF t1.m_pPendingClip = NoClip THEN 0
                          ELSE Samples(t1.m_pPendingClip, 0)
            a(i) == FadeWeight(FadeIndex(i, lastSample), t1.m_nFadeSamples)
            iVal(i) == FadeValue(a(i),
                         ReadSample(clip, FadeSource(sampleOffset, lastSample, i),
                                    garbage),
                         nextSample)
        IN  [ret |-> TRUE,
             track |-> IF bLoop THEN GetAudioPromote(t1) ELSE t1,
             buf |-> [i \in DOMAIN buf |->
                        IF i \in copied
                        THEN AddScaled(buf[i],
                               ReadSample(clip, CopySource(sampleOffset, i), garbage))
                        ELSE IF i \in fadedSlots
                        THEN Wrap16(buf[i] + iVal(i))
                        ELSE buf[i]],
             bLoop |-> bLoop,
             copySlots |-> copied,
             fadeSlots |-> fadedSlots,
             weights |-> [j \in 1..Cardinality(fadedSlots) |->
                            FadeWeight(j, t1.m_nFadeSamples)],
             fadeValues |-> [j \in 1..Cardinality(fadedSlots) |->
                               iVal(lastSample + j - 1)],
             sums |-> [i \in DOMAIN buf |->
                         IF i \in copied
                         THEN Trunc(2 * buf[i] +
                                ReadSample(clip, CopySource(sampleOffset, i), garbage), 2)
                         ELSE IF i \in fadedSlots THEN buf[i] + iVal(i)
                         ELSE buf[i]],
             reads |-> {CopySource(sampleOffset, i) : i \in copied} \cup
                       {FadeSource(sampleOffset, lastSample, i) : i \in fadedSlots}]

(***************************************************************************)
(* LoopLauncher: pure parts                                                *)
(***************************************************************************)
\* mutant: the new track replaces a track of the same name (operator[])
Emplace_Assign(tracks, name, files) ==
  [n \in DOMAIN tracks \cup {name} |->
     IF n = name THEN TrackCtor(files) ELSE tracks[n]]

\* std::map::emplace( name, files ): no effect when the key exists
Emplace(tracks, name, files) ==
  IF name \in DOMAIN tracks
  THEN tracks
  ELSE [n \in DOMAIN tracks \cup {name} |->
          IF n = name THEN TrackCtor(files) ELSE tracks[n]]

\* Initialize, lines 219-220
EmplaceAll(tracks, mapTracks) ==
  [n \in DOMAIN tracks \cup DOMAIN mapTracks |->
     IF n \in DOMAIN tracks THEN tracks[n] ELSE TrackCtor(mapTracks[n])]

\* Initialize, lines 227-232
MaxSampleCount(old, tracks) ==
  MaxOf({old} \cup {GetSampleCount(tracks[n]) : n \in DOMAIN tracks})

MinSampleCount(tracks) ==
  MinOf({GetSampleCount(tracks[n]) : n \in DOMAIN tracks})

\* mutant: the chunk is rounded up, so it is never empty
MixBufferSize_RoundUp(tracks) ==
  (MinSampleCount(tracks) + ChunkDivisor - 1) \div ChunkDivisor

\* Initialize, line 237
MixBufferSize(tracks) == MinSampleCount(tracks) \div ChunkDivisor

\* mutant: the scan keeps going and ends on the last track holding the clip
FirstTrackWith_NoBreak(tracks, clip) ==
  LET S == {n \in DOMAIN tracks : HasClip(tracks[n], clip)}
  IN  IF S = {} THEN NoTrack ELSE CHOOSE s \in S : \A t \in S : Rank(t) <= Rank(s)

\* UpdatePendingClips, lines 285-297: the inner loop over m_mapTracks
FirstTrackWith(tracks, clip) ==
  LET S == {n \in DOMAIN tracks : HasClip(tracks[n], clip)}
  IN  IF S = {} THEN NoTrack ELSE First(S)

\* mutant: an entry already staged for the track is kept (insert, not operator[])
StageOne_Insert(st, clip, tracks) ==
  LET n == FirstTrackWith(tracks, clip)
  IN  IF n = NoTrack THEN st
      ELSE IF n \in DOMAIN st.map THEN [map |-> st.map, needs |-> FALSE]
      ELSE [map |-> MapPut(st.map, n, clip), needs |-> FALSE]

\* mutant: staging a request leaves the needs-audio flag as it was
StageOne_KeepFlag(st, clip, tracks) ==
  LET n == FirstTrackWith(tracks, clip)
  IN  IF n = NoTrack THEN st
      ELSE [map |-> MapPut(st.map, n, clip), needs |-> st.needs]

\* UpdatePendingClips, lines 287-296: the body of the loop for one clip name
StageOne(st, clip, tracks) ==
  LET n == FirstTrackWith(tracks, clip)
  IN  IF n = NoTrack THEN st
      ELSE [map |-> MapPut(st.map, n, clip), needs |-> FALSE]

\* UpdatePendingClips, lines 283-298: the outer loop over the requested clips
RECURSIVE StageAll(_, _, _)
StageAll(st, clips, tracks) ==
  IF clips = <<>> THEN st
  ELSE StageAll(StageOne(st, Head(clips), tracks), Tail(clips), tracks)

\* UpdatePendingClips, line 301
UpdateResult(needsAfter) == (needsAfter = FALSE)

\* mutant: the two loops run in the other order, so the silencing comes last
PostPendingTracks_SilenceLast(tracks, pend) ==
  LET applied == [n \in DOMAIN tracks |->
                    IF n \in DOMAIN pend
                    THEN SetPendingTrack(tracks[n], pend[n])
                    ELSE tracks[n]]
  IN  [n \in DOMAIN tracks |-> SetPendingTrack(applied[n], SilenceName)]

\* mutant: a track without a staged request keeps its pending clip
PostPendingTracks_KeepUnstaged(tracks, pend) ==
  [n \in DOMAIN tracks |->
     IF n \in DOMAIN pend THEN SetPendingTrack(tracks[n], pend[n]) ELSE tracks[n]]

\* postPendingTracks, lines 319-330
PostPendingTracks(tracks, pend) ==
  LET silenced == [n \in DOMAIN tracks |-> SetPendingTrack(tracks[n], SilenceName)]
  IN  [n \in DOMAIN tracks |->
         IF n \in DOMAIN pend
         THEN SetPendingTrack(silenced[n], pend[n])
         ELSE silenced[n]]

\* mutant: a one-sample buffer is taken for an empty one
MixBufferEmpty_Short(size) == size <= 1

\* onGetData, line 343
MixBufferEmpty(size) == size = 0

\* mutant: the call loops only once its window passes the loop length
WillLoop_Strict(sampleCount, pos, maxCount) == sampleCount + pos > maxCount

\* onGetData, line 354
WillLoop(sampleCount, pos, maxCount) == sampleCount + pos >= maxCount

\* mutant: the position wraps only once it has passed the loop length
AdvancePos_Strict(pos, sampleCount, maxCount) ==
  IF pos + sampleCount > maxCount THEN 0 ELSE pos + sampleCount

\* onGetData, lines 365-369
AdvancePos(pos, sampleCount, maxCount) ==
  IF pos + sampleCount >= maxCount THEN 0 ELSE pos + sampleCount

\* the range-for over m_mapTracks: the track after cur, or NoTrack at end()
NextTrack(tracks, cur) ==
  LET S == {n \in DOMAIN tracks : Rank(n) > Rank(cur)}
  IN  IF S = {} THEN NoTrack ELSE First(S)

BeginTrack(tracks) == IF DOMAIN tracks = {} THEN NoTrack ELSE First(DOMAIN tracks)

(***************************************************************************)
(* Inputs explored                                                          *)
(***************************************************************************)
\* arguments of Initialize
InitInputs ==
  { EmptyMap,
    [n \in {"bass"} |-> <<"missing">>],
    [n \in {"bass", "drums"} |-> IF n = "bass" THEN <<"a", "x">> ELSE <<"a", "b">>],
    [n \in {"bass", "drums"} |-> IF n = "bass" THEN <<"long">> ELSE <<"a", "b">>] }

\* arguments of AddTrack
AddTrackNames == {"drums", "keys"}

AddTrackFiles == {<<"long">>, <<"silence", "missing">>, <<"missing">>}

\* arguments of UpdatePendingClips
RequestLists == {<<"b">>, <<"a", "b">>, <<"b", "a">>, <<"missing">>, <<"x", "missing">>}

(***************************************************************************)
(* State                                                                   *)
(***************************************************************************)
VARIABLES
  m_mapTracks,        \* track name -> Track
  m_nLastSamplePos,
  m_nMaxSampleCount,
  m_vMixBufferSize,   \* m_vMixBuffer.size()
  m_bNeedsAudio,
  m_mapPendingTracks, \* track name -> clip name
  m_muTrackUpdate,    \* the holder of the mutex
  initState,          \* "none", "ok" (Initialize returned true) or "failed"
  playing,            \* the stream's thread is pulling data
  cpc,                \* where the control thread is
  carg,               \* the argument of the control thread's call in progress
  rpc,                \* where the audio thread is inside onGetData
  rcur,               \* the track the audio thread's loop is at
  nOps,               \* control-thread operations begun
  wrapped,            \* history: a render call that crossed the loop boundary has returned
  posted,             \* history: the requests the current render call's post-pending step took
  superseded,         \* history: track -> <<staged clip last replaced, clip replacing it>>
  last,               \* history: the step just taken: operation, thread, inputs, result
  flushed,            \* history: the requests the last Play took, and whether the
                      \* first render call begun after that Play is running
  postRan,            \* history: the render call in progress has run postPendingTracks
  seeded,             \* history: track -> the clip made pending on it through
                      \* GetTrack before playback, not requested since
  trk,                \* a Track driven on its own, through Track's public functions
  call                \* history: the last call on trk: arguments, result, reads and writes

vars ==
  <<m_mapTracks, m_nLastSamplePos, m_nMaxSampleCount, m_vMixBufferSize,
    m_bNeedsAudio, m_mapPendingTracks, m_muTrackUpdate, initState, playing,
    cpc, carg, rpc, rcur, nOps, wrapped, posted, superseded, last,
    flushed, postRan, seeded, trk, call>>

\* the mixer and its two threads
launcher ==
  <<m_mapTracks, m_nLastSamplePos, m_nMaxSampleCount, m_vMixBufferSize,
    m_bNeedsAudio, m_mapPendingTracks, m_muTrackUpdate, initState, playing,
    cpc, carg, rpc, rcur, nOps, wrapped, posted, superseded, last,
    flushed, postRan, seeded>>

\* the Track driven on its own
unit == <<trk, call>>

mixer == <<m_nLastSamplePos, m_nMaxSampleCount, m_vMixBufferSize>>

shared == <<m_bNeedsAudio, m_mapPendingTracks>>

audio == <<rpc, rcur>>

history == <<wrapped, posted, flushed, postRan, seeded>>

\* no Play is waiting for its first render call
NoFlush == [req |-> EmptyMap, first |-> FALSE]

Step(op, thread, clips, taken, ret) ==
  [op |-> op, thread |-> thread, clips |-> clips, posted |-> taken, ret |-> ret,
   superseded |-> IF op \in {"postPendingTracks", "Play"} THEN superseded ELSE EmptyMap]

\* an empty mix buffer
NoBuffer == [i \in {} |-> 0]

\* the record of a call on trk: prior and buf are the mix buffer handed to
\* GetAudio, before and after the call; repeat says that the call before it
\* was SetPendingTrack with the same argument, prevRet what that call returned
Call(op, name, n, pos, prior, before, r) ==
  [op |-> op, name |-> name, nSamplesDesired |-> n, nCurSamplePos |-> pos,
   prior |-> prior, buf |-> r.buf, before |-> before, ret |-> r.ret,
   bLoop |-> r.bLoop,
   copySlots |-> r.copySlots, fadeSlots |-> r.fadeSlots, weights |-> r.weights,
   fadeValues |-> r.fadeValues, sums |-> r.sums,
   reads |-> r.reads,
   repeat |-> (op = "SetPendingTrack" /\ call.op = op /\ call.name = name),
   prevRet |-> IF op = "SetPendingTrack" /\ call.op = op /\ call.name = name
               THEN call.ret ELSE TRUE]

\* what a call that is not GetAudio reads and writes of the samples: nothing
NoRender(ret) ==
  [ret |-> ret, buf |-> NoBuffer, bLoop |-> FALSE, copySlots |-> {},
   fadeSlots |-> {}, weights |-> <<>>, fadeValues |-> <<>>, sums |-> NoBuffer,
   reads |-> {}]

Init ==
  /\ trk = NewTrack
  /\ call = [op |-> "construct", name |-> NoClip, nSamplesDesired |-> 0,
             nCurSamplePos |-> 0, prior |-> NoBuffer, buf |-> NoBuffer,
             before |-> NewTrack,
             ret |-> TRUE, bLoop |-> FALSE, copySlots |-> {}, fadeSlots |-> {},
             weights |-> <<>>, fadeValues |-> <<>>, sums |-> NoBuffer, reads |-> {},
             repeat |-> FALSE, prevRet |-> TRUE]
  /\ m_mapTracks = EmptyMap
  /\ m_nLastSamplePos = 0
  /\ m_nMaxSampleCount = 0
  /\ m_vMixBufferSize = 0
  /\ m_bNeedsAudio = TRUE
  /\ m_mapPendingTracks = EmptyMap
  /\ m_muTrackUpdate = Unlocked
  /\ initState = "none"
  /\ playing = FALSE
  /\ cpc = "idle"
  /\ carg = <<>>
  /\ rpc = "idle"
  /\ rcur = NoTrack
  /\ nOps = 0
  /\ wrapped = FALSE
  /\ posted = EmptyMap
  /\ superseded = EmptyMap
  /\ last = [op |-> "construct", thread |-> "control", clips |-> <<>>,
             posted |-> EmptyMap, ret |-> TRUE, superseded |-> EmptyMap]
  /\ flushed = NoFlush
  /\ postRan = FALSE
  /\ seeded = EmptyMap

\* history only: which staged clip each request of the list replaces
RECURSIVE Supersede(_, _, _, _)
Supersede(sup, map, clips, tracks) ==
  IF clips = <<>> THEN sup
  ELSE LET n == FirstTrackWith(tracks, Head(clips))
       IN  IF n = NoTrack
           THEN Supersede(sup, map, Tail(clips), tracks)
           ELSE Supersede(IF n \in DOMAIN map /\ map[n] # Head(clips)
                          THEN MapPut(sup, n, <<map[n], Head(clips)>>) ELSE sup,
                          MapPut(map, n, Head(clips)), Tail(clips), tracks)

(***************************************************************************)
(* Control thread                                                          *)
(***************************************************************************)
Initialize(mapTracks) ==
  /\ cpc = "idle"
  /\ initState = "none"
  /\ LET tracks == EmplaceAll(m_mapTracks, mapTracks)
     IN  IF DOMAIN tracks = {}
         THEN /\ initState' = "failed"
              /\ last' = Step("Initialize", "control", <<>>, EmptyMap, FALSE)
              /\ UNCHANGED <<m_mapTracks, mixer>>
         ELSE /\ m_mapTracks' = tracks
              /\ m_nMaxSampleCount' = MaxSampleCount(m_nMaxSampleCount, tracks)
              /\ m_vMixBufferSize' = MixBufferSize(tracks)
              /\ initState' = "ok"
              /\ last' = Step("Initialize", "control", <<>>, EmptyMap, TRUE)
              /\ UNCHANGED m_nLastSamplePos
  /\ UNCHANGED <<unit, shared, m_muTrackUpdate, playing, cpc, carg, audio, nOps,
                 history, superseded>>

AddTrack(trackName, liFileNames) ==
  /\ cpc = "idle"
  /\ nOps < MaxOps
  /\ nOps' = nOps + 1
  /\ m_mapTracks' = Emplace(m_mapTracks, trackName, liFileNames)
  /\ last' = Step("AddTrack", "control", liFileNames, EmptyMap, TRUE)
  /\ UNCHANGED <<unit, mixer, shared, m_muTrackUpdate, initState, playing, cpc, carg,
                 audio, history, superseded>>

\* GetTrack( trackName ), lines 248-255, and Track::SetPendingTrack( clipName )
\* on the track it returns, called by the control thread before playback
SeedPendingTrack(trackName, clipName) ==
  /\ cpc = "idle"
  /\ ~playing
  /\ nOps < MaxOps
  /\ nOps' = nOps + 1
  /\ IF trackName \in DOMAIN m_mapTracks
     THEN /\ m_mapTracks' = [m_mapTracks EXCEPT
                               ![trackName] = SetPendingTrack(@, clipName)]
          /\ last' = Step("SetPendingTrack", "control", <<trackName, clipName>>,
                          EmptyMap,
                          SetPendingTrackResult(m_mapTracks[trackName], clipName))
          /\ seeded' = IF SetPendingTrackResult(m_mapTracks[trackName], clipName)
                       THEN MapPut(seeded, trackName, clipName)
                       ELSE [T \in DOMAIN seeded \ {trackName} |-> seeded[T]]
     ELSE /\ last' = Step("GetTrack", "control", <<trackName, clipName>>, EmptyMap,
                          FALSE)
          /\ UNCHANGED <<m_mapTracks, seeded>>
  /\ UNCHANGED <<unit, mixer, shared, m_muTrackUpdate, initState, playing, cpc, carg,
                 audio, wrapped, posted, flushed, postRan, superseded>>

\* std::lock_guard at the top of UpdatePendingClips, NeedsAudio and (through
\* postPendingTracks) Play
ControlLock(op, arg) ==
  /\ cpc = "idle"
  /\ nOps < MaxOps
  /\ m_muTrackUpdate = Unlocked
  /\ m_muTrackUpdate' = "control"
  /\ nOps' = nOps + 1
  /\ cpc' = op
  /\ carg' = arg
  /\ last' = Step("lock", "control", arg, EmptyMap, TRUE)
  /\ UNCHANGED <<unit, m_mapTracks, mixer, shared, initState, playing, audio,
                 history, superseded>>

UpdatePendingClipsLock(liNewActiveClips) ==
  ControlLock("UpdatePendingClips", liNewActiveClips)

UpdatePendingClips ==
  /\ cpc = "UpdatePendingClips"
  /\ LET st == StageAll([map |-> m_mapPendingTracks, needs |-> m_bNeedsAudio],
                        carg, m_mapTracks)
     IN  /\ m_mapPendingTracks' = st.map
         /\ m_bNeedsAudio' = st.needs
         /\ last' = Step("UpdatePendingClips", "control", carg, EmptyMap,
                         UpdateResult(st.needs))
  /\ superseded' = Supersede(superseded, m_mapPendingTracks, carg, m_mapTracks)
  /\ m_muTrackUpdate' = Unlocked
  /\ cpc' = "idle"
  /\ carg' = <<>>
  /\ UNCHANGED <<unit, m_mapTracks, mixer, initState, playing, audio, nOps, history>>

NeedsAudioLock == ControlLock("NeedsAudio", <<>>)

NeedsAudio ==
  /\ cpc = "NeedsAudio"
  /\ last' = Step("NeedsAudio", "control", <<>>, EmptyMap, m_bNeedsAudio)
  /\ m_muTrackUpdate' = Unlocked
  /\ cpc' = "idle"
  /\ UNCHANGED <<unit, m_mapTracks, mixer, shared, initState, playing, carg, audio,
                 nOps, history, superseded>>

PlayLock == ControlLock("Play", <<>>)

\* mutant: Play returns without releasing the mutex
Play_KeepLock ==
  /\ cpc = "Play"
  /\ m_mapTracks' = PostPendingTracks(m_mapTracks, m_mapPendingTracks)
  /\ m_mapPendingTracks' = EmptyMap
  /\ m_bNeedsAudio' = TRUE
  /\ playing' = (playing \/ initState = "ok")
  /\ cpc' = "idle"
  /\ superseded' = EmptyMap
  /\ last' = Step("Play", "control", <<>>, m_mapPendingTracks, TRUE)
  /\ flushed' = [req |-> m_mapPendingTracks, first |-> FALSE]
  /\ seeded' = [T \in DOMAIN seeded \ DOMAIN m_mapPendingTracks |-> seeded[T]]
  /\ UNCHANGED <<unit, mixer, m_muTrackUpdate, initState, carg, audio, nOps,
                 wrapped, posted, postRan>>

\* mutant: Play starts the stream without the post-pending step
Play_NoFlush ==
  /\ cpc = "Play"
  /\ m_muTrackUpdate' = Unlocked
  /\ playing' = (playing \/ initState = "ok")
  /\ cpc' = "idle"
  /\ last' = Step("Play", "control", <<>>, EmptyMap, TRUE)
  /\ flushed' = [req |-> m_mapPendingTracks, first |-> FALSE]
  /\ seeded' = [T \in DOMAIN seeded \ DOMAIN m_mapPendingTracks |-> seeded[T]]
  /\ UNCHANGED <<unit, m_mapTracks, mixer, shared, initState, carg, audio, nOps,
                 wrapped, posted, postRan, superseded>>

\* postPendingTracks on the control thread, then sf::SoundStream::play, which
\* starts the stream only once initialize() has set its format
Play ==
  /\ cpc = "Play"
  /\ m_mapTracks' = PostPendingTracks(m_mapTracks, m_mapPendingTracks)
  /\ m_mapPendingTracks' = EmptyMap
  /\ m_bNeedsAudio' = TRUE
  /\ m_muTrackUpdate' = Unlocked
  /\ playing' = (playing \/ initState = "ok")
  /\ cpc' = "idle"
  /\ superseded' = EmptyMap
  /\ last' = Step("Play", "control", <<>>, m_mapPendingTracks, TRUE)
  /\ flushed' = [req |-> m_mapPendingTracks, first |-> FALSE]
  /\ seeded' = [T \in DOMAIN seeded \ DOMAIN m_mapPendingTracks |-> seeded[T]]
  /\ UNCHANGED <<unit, mixer, initState, carg, audio, nOps, wrapped, posted, postRan>>

(***************************************************************************)
(* Audio thread: onGetData                                                 *)
(***************************************************************************)
\* lines 342-355: the empty-buffer check, the chunk and bLoop
OnGetDataBegin ==
  /\ playing
  /\ rpc = "idle"
  /\ IF MixBufferEmpty(m_vMixBufferSize)
     THEN /\ playing' = FALSE
          /\ last' = Step("onGetData", "audio", <<>>, EmptyMap, FALSE)
          /\ flushed' = NoFlush
          /\ UNCHANGED <<audio, posted, postRan>>
     ELSE /\ IF WillLoop(m_vMixBufferSize, m_nLastSamplePos, m_nMaxSampleCount)
             THEN rpc' = "lock" /\ rcur' = NoTrack
             ELSE rpc' = "tracks" /\ rcur' = BeginTrack(m_mapTracks)
          /\ posted' = EmptyMap
          /\ postRan' = FALSE
          /\ flushed' = [flushed EXCEPT !.first = (flushed.req # EmptyMap)]
          /\ last' = Step("begin", "audio", <<>>, EmptyMap, TRUE)
          /\ UNCHANGED playing
  /\ UNCHANGED <<unit, m_mapTracks, mixer, shared, m_muTrackUpdate, initState, cpc,
                 carg, nOps, wrapped, superseded, seeded>>

\* mutant: the audio thread enters postPendingTracks without waiting for the
\* mutex
PostLock_NoWait ==
  /\ rpc = "lock"
  /\ m_muTrackUpdate' = "audio"
  /\ rpc' = "post"
  /\ last' = Step("lock", "audio", <<>>, EmptyMap, TRUE)
  /\ UNCHANGED <<unit, m_mapTracks, mixer, shared, initState, playing, cpc, carg,
                 rcur, nOps, history, superseded>>

\* line 315: the lock_guard of postPendingTracks
PostLock ==
  /\ rpc = "lock"
  /\ m_muTrackUpdate = Unlocked
  /\ m_muTrackUpdate' = "audio"
  /\ rpc' = "post"
  /\ last' = Step("lock", "audio", <<>>, EmptyMap, TRUE)
  /\ UNCHANGED <<unit, m_mapTracks, mixer, shared, initState, playing, cpc, carg,
                 rcur, nOps, history, superseded>>

\* mutant: the render call's post-pending step applies the staged requests
\* and leaves them staged
PostPending_KeepStaged ==
  /\ rpc = "post"
  /\ m_mapTracks' = PostPendingTracks(m_mapTracks, m_mapPendingTracks)
  /\ m_muTrackUpdate' = Unlocked
  /\ rpc' = "tracks"
  /\ rcur' = BeginTrack(m_mapTracks)
  /\ posted' = m_mapPendingTracks
  /\ superseded' = EmptyMap
  /\ last' = Step("postPendingTracks", "audio", <<>>, m_mapPendingTracks, TRUE)
  /\ postRan' = TRUE
  /\ seeded' = [T \in DOMAIN seeded \ DOMAIN m_mapPendingTracks |-> seeded[T]]
  /\ UNCHANGED <<unit, mixer, shared, initState, playing, cpc, carg, nOps, wrapped,
                 flushed>>

\* lines 317-337, then the start of the loop of line 361
PostPending ==
  /\ rpc = "post"
  /\ m_mapTracks' = PostPendingTracks(m_mapTracks, m_mapPendingTracks)
  /\ m_mapPendingTracks' = EmptyMap
  /\ m_bNeedsAudio' = TRUE
  /\ m_muTrackUpdate' = Unlocked
  /\ rpc' = "tracks"
  /\ rcur' = BeginTrack(m_mapTracks)
  /\ posted' = m_mapPendingTracks
  /\ superseded' = EmptyMap
  /\ last' = Step("postPendingTracks", "audio", <<>>, m_mapPendingTracks, TRUE)
  /\ postRan' = TRUE
  /\ seeded' = [T \in DOMAIN seeded \ DOMAIN m_mapPendingTracks |-> seeded[T]]
  /\ UNCHANGED <<unit, mixer, initState, playing, cpc, carg, nOps, wrapped, flushed>>

\* Track::GetAudio of the track at rcur up to line 147; a call that does not
\* cross the end of the active clip returns from here
GetAudio ==
  /\ rpc = "tracks"
  /\ rcur # NoTrack
  /\ LET t == GetAudioBootstrap(m_mapTracks[rcur])
     IN  /\ m_mapTracks' = [m_mapTracks EXCEPT ![rcur] = t]
         /\ IF t.m_pPendingTrack = NoClip
            THEN /\ rcur' = NextTrack(m_mapTracks, rcur)
                 /\ rpc' = "tracks"
                 /\ last' = Step("GetAudio", "audio", <<rcur>>, EmptyMap, FALSE)
            ELSE IF GetAudioLoops(t, m_vMixBufferSize, m_nLastSamplePos)
            THEN /\ rcur' = rcur
                 /\ rpc' = "fade"
                 /\ last' = Step("GetAudioCopy", "audio", <<rcur>>, EmptyMap, TRUE)
            ELSE /\ rcur' = NextTrack(m_mapTracks, rcur)
                 /\ rpc' = "tracks"
                 /\ last' = Step("GetAudio", "audio", <<rcur>>, EmptyMap, TRUE)
  /\ UNCHANGED <<unit, mixer, shared, m_muTrackUpdate, initState, playing, cpc, carg,
                 nOps, history, superseded>>

\* Track::GetAudio, lines 150-174: the crossfade and the promotion
GetAudioFade ==
  /\ rpc = "fade"
  /\ m_mapTracks' = [m_mapTracks EXCEPT ![rcur] = GetAudioPromote(@)]
  /\ rcur' = NextTrack(m_mapTracks, rcur)
  /\ rpc' = "tracks"
  /\ last' = Step("GetAudio", "audio", <<rcur>>, EmptyMap, TRUE)
  /\ UNCHANGED <<unit, mixer, shared, m_muTrackUpdate, initState, playing, cpc, carg,
                 nOps, history, superseded>>

\* lines 364-372
OnGetDataEnd ==
  /\ rpc = "tracks"
  /\ rcur = NoTrack
  /\ m_nLastSamplePos' = AdvancePos(m_nLastSamplePos, m_vMixBufferSize, m_nMaxSampleCount)
  /\ rpc' = "idle"
  /\ wrapped' = (wrapped \/
                   WillLoop(m_vMixBufferSize, m_nLastSamplePos, m_nMaxSampleCount))
  /\ last' = Step("onGetData", "audio", <<>>, EmptyMap, TRUE)
  /\ flushed' = IF flushed.first THEN NoFlush ELSE flushed
  /\ postRan' = FALSE
  /\ UNCHANGED <<unit, m_mapTracks, m_nMaxSampleCount, m_vMixBufferSize, shared,
                 m_muTrackUpdate, initState, playing, cpc, carg, rcur, nOps,
                 posted, superseded, seeded>>

Next ==
  \/ \E mapTracks \in InitInputs : Initialize(mapTracks)
  \/ \E trackName \in AddTrackNames, liFileNames \in AddTrackFiles :
       AddTrack(trackName, liFileNames)
  \/ \E liNewActiveClips \in RequestLists : UpdatePendingClipsLock(liNewActiveClips)
  \/ UpdatePendingClips
  \/ NeedsAudioLock
  \/ NeedsAudio
  \/ PlayLock
  \/ Play
  \/ OnGetDataBegin
  \/ PostLock
  \/ PostPending
  \/ GetAudio
  \/ GetAudioFade
  \/ OnGetDataEnd

Spec == Init /\ [][Next]_vars

\* Fair scheduling: a thread that is inside an operation goes on to its next
\* step, and a thread waiting at the mutex gets it if it is free again and
\* again. Nothing obliges the control thread to begin an operation or the
\* stream to ask for data.
Fairness ==
  /\ WF_vars(UpdatePendingClips)
  /\ WF_vars(NeedsAudio)
  /\ WF_vars(Play)
  /\ SF_vars(PostLock)
  /\ WF_vars(PostPending)
  /\ WF_vars(GetAudio)
  /\ WF_vars(GetAudioFade)
  /\ WF_vars(OnGetDataEnd)

\* the arguments explored under fair scheduling: one track map with two
\* tracks of one loop length, one track added, one list of requests
FairInitInputs ==
  { [n \in {"bass", "drums"} |-> IF n = "bass" THEN <<"a", "x">> ELSE <<"a", "b">>] }

FairAddTrackNames == {"keys"}

FairAddTrackFiles == {<<"long">>}

FairRequestLists == {<<"b", "a">>}

FairNext ==
  \/ \E mapTracks \in FairInitInputs : Initialize(mapTracks)
  \/ \E trackName \in FairAddTrackNames, liFileNames \in FairAddTrackFiles :
       AddTrack(trackName, liFileNames)
  \/ \E liNewActiveClips \in FairRequestLists :
       UpdatePendingClipsLock(liNewActiveClips)
  \/ UpdatePendingClips
  \/ NeedsAudioLock
  \/ NeedsAudio
  \/ PlayLock
  \/ Play
  \/ OnGetDataBegin
  \/ PostLock
  \/ PostPending
  \/ GetAudio
  \/ GetAudioFade
  \/ OnGetDataEnd

FairSpec == Init /\ [][FairNext]_vars /\ Fairness

\* the arguments explored for a clip whose length is not a multiple of the
\* mix buffer's size, next to the ordinary ones
ChunkInitInputs ==
  { [n \in {"bass"} |-> <<"xl">>],
    [n \in {"bass", "drums"} |-> IF n = "bass" THEN <<"a", "x">> ELSE <<"a", "b">>] }

ChunkRequestLists == {<<"xl">>, <<"b", "a">>}

ChunkNext ==
  \/ \E mapTracks \in ChunkInitInputs : Initialize(mapTracks)
  \/ \E trackName \in FairAddTrackNames, liFileNames \in FairAddTrackFiles :
       AddTrack(trackName, liFileNames)
  \/ \E liNewActiveClips \in ChunkRequestLists :
       UpdatePendingClipsLock(liNewActiveClips)
  \/ UpdatePendingClips
  \/ NeedsAudioLock
  \/ NeedsAudio
  \/ PlayLock
  \/ Play
  \/ OnGetDataBegin
  \/ PostLock
  \/ PostPending
  \/ GetAudio
  \/ GetAudioFade
  \/ OnGetDataEnd

ChunkSpec == Init /\ [][ChunkNext]_vars

\* the arguments of GetTrack and SetPendingTrack explored before playback
SeedTracks == {"bass", "keys"}

SeedClips == {"x", "long"}

\* the track maps handed to Initialize: two tracks without a clip "silence",
\* and one track that holds one
SeedInitInputs ==
  FairInitInputs \cup { [n \in {"bass"} |-> <<"silence", "x">>] }

\* the mixer with a control thread that also sets pending clips on the
\* tracks themselves before playback
SeedNext ==
  \/ \E mapTracks \in SeedInitInputs : Initialize(mapTracks)
  \/ \E trackName \in FairAddTrackNames, liFileNames \in FairAddTrackFiles :
       AddTrack(trackName, liFileNames)
  \/ \E trackName \in SeedTracks, clipName \in SeedClips :
       SeedPendingTrack(trackName, clipName)
  \/ \E liNewActiveClips \in FairRequestLists :
       UpdatePendingClipsLock(liNewActiveClips)
  \/ UpdatePendingClips
  \/ NeedsAudioLock
  \/ NeedsAudio
  \/ PlayLock
  \/ Play
  \/ OnGetDataBegin
  \/ PostLock
  \/ PostPending
  \/ GetAudio
  \/ GetAudioFade
  \/ OnGetDataEnd

SeedSpec == Init /\ [][SeedNext]_vars

\* the stream keeps asking for data for as long as it plays
RenderSpec == FairSpec /\ WF_vars(OnGetDataBegin)

(***************************************************************************)
(* A Track on its own: Track's public functions applied to one track, with *)
(* arguments drawn from bounded sets                                       *)
(***************************************************************************)
\* arguments of Track::AddClip and Track::SetPendingTrack
TrackFiles == {"kick", "snare", "sub", "missing"}

ClipNames == {"kick", "snare", "sub", "missing", "silence"}

\* what the buffer holds when GetAudio is called: zeros, as onGetData leaves
\* it for the first track, or what other tracks have added: small values, or
\* what one track adds from samples of the largest value
PriorBuffers(n) ==
  { [i \in 0..(n - 1) |-> 0],
    [i \in 0..(n - 1) |-> 3 - 2 * i],
    [i \in 0..(n - 1) |-> Int16Max \div 2] }

\* what an out-of-bounds read of a clip's samples may yield
GarbageValues == {Int16Min, 7}

\* the call reads the active clip's samples past their end
ReadsPastEnd(t, nSamplesDesired, nCurSamplePos) ==
  LET r == GetAudioRender(t, NoBuffer, nSamplesDesired, nCurSamplePos, 0)
  IN  /\ r.ret
      /\ \E idx \in r.reads : idx >= SampleCountOf(GetAudioBootstrap(t).m_pPendingTrack)

TrackAddClip(fileName) ==
  /\ Cardinality(trk.m_mapClips) < MaxClips
  /\ trk' = AddClip(trk, fileName)
  /\ call' = Call("AddClip", fileName, 0, 0, NoBuffer, trk,
                  NoRender(AddClipResult(trk, fileName)))
  /\ UNCHANGED launcher

TrackSetPendingTrack(trackName) ==
  /\ trk' = SetPendingTrack(trk, trackName)
  /\ call' = Call("SetPendingTrack", trackName, 0, 0, NoBuffer, trk,
                  NoRender(SetPendingTrackResult(trk, trackName)))
  /\ UNCHANGED launcher

TrackGetAudio(nSamplesDesired, nCurSamplePos) ==
  \E prior \in PriorBuffers(nSamplesDesired),
     garbage \in IF ReadsPastEnd(trk, nSamplesDesired, nCurSamplePos)
                 THEN GarbageValues ELSE {0} :
    LET r == GetAudioRender(trk, prior, nSamplesDesired, nCurSamplePos, garbage)
    IN  /\ trk' = r.track
        /\ call' = Call("GetAudio", NoClip, nSamplesDesired, nCurSamplePos, prior,
                        trk, r)
        /\ UNCHANGED launcher

TrackNext ==
  \/ \E fileName \in TrackFiles : TrackAddClip(fileName)
  \/ \E trackName \in ClipNames : TrackSetPendingTrack(trackName)
  \/ \E nSamplesDesired \in 1..MaxWindow, nCurSamplePos \in 0..MaxPos :
       TrackGetAudio(nSamplesDesired, nCurSamplePos)

TrackSpec == Init /\ [][TrackNext]_vars

(***************************************************************************)
(* Properties                                                              *)
(***************************************************************************)
Tracks == DOMAIN m_mapTracks

Staged == DOMAIN m_mapPendingTracks

\* T is the first track, in track-name order, that holds the clip
IsFirstHolder(tracks, clip, T) ==
  /\ T \in DOMAIN tracks
  /\ HasClip(tracks[T], clip)
  /\ \A n \in DOMAIN tracks : HasClip(tracks[n], clip) => Rank(T) <= Rank(n)

\* the positions of the list whose clip name goes to track T
Hits(tracks, clips, T) == {i \in 1..Len(clips) : IsFirstHolder(tracks, clips[i], T)}

\* the largest GetSampleCount over the tracks the mixer owns
MaxTrackSampleCount == MaxOf({GetSampleCount(m_mapTracks[n]) : n \in Tracks})

\* the steps that run the body of postPendingTracks: the audio thread's, in a
\* render call that crosses the loop boundary, and Play's, on the control thread
PostSteps == {"postPendingTracks", "Play"}

\* what the current render call's window does to track t: it crosses the end
\* of t's active clip
CrossesClipEnd(t) ==
  /\ t.m_pPendingTrack # NoClip
  /\ (m_nLastSamplePos % SampleCountOf(t.m_pPendingTrack)) + m_vMixBufferSize
       >= SampleCountOf(t.m_pPendingTrack)

\* C1 (as stated): a request staged when a wrap's post-pending step begins is
\* the track's pending clip when the step completes, and a request staged
\* after a wrap's post-pending step leaves the staged map only in the
\* post-pending step of the next wrap-crossing render call, which applies it.
C1_StagedAppliedAtNextWrap ==
  [][\A T \in Staged :
       /\ last'.op = "postPendingTracks" =>
            m_mapTracks'[T].m_pPendingClip = m_mapPendingTracks[T]
       /\ (wrapped /\ T \notin DOMAIN m_mapPendingTracks') =>
            (last'.op = "postPendingTracks" /\ last'.thread = "audio")]_vars

\* C1 (as amended): a request staged when a post-pending step begins is the
\* track's pending clip when the step completes and is then gone from the
\* map; a staged request stays in the map, changed only by a later
\* UpdatePendingClips, until the next post-pending step, which is that of the
\* next wrap-crossing render call or that of a Play call coming first.
C1_StagedAppliedAtNextPost ==
  [][\A T \in Staged :
       /\ last'.op \in PostSteps =>
            /\ T \in DOMAIN m_mapTracks'
            /\ m_mapTracks'[T].m_pPendingClip = m_mapPendingTracks[T]
            /\ T \notin DOMAIN m_mapPendingTracks'
       /\ last'.op \notin PostSteps =>
            /\ T \in DOMAIN m_mapPendingTracks'
            /\ m_mapPendingTracks'[T] # m_mapPendingTracks[T] =>
                 last'.op = "UpdatePendingClips"]_vars

\* the post-pending step of a second wrap has applied requests staged after
\* the first wrap
C1_Witness ==
  /\ last.op = "postPendingTracks"
  /\ last.thread = "audio"
  /\ wrapped
  /\ last.posted # EmptyMap
  /\ \A T \in DOMAIN last.posted : m_mapTracks[T].m_pPendingClip = last.posted[T]

\* C2 (as stated): after a wrap, until the post-pending step of the next
\* wrap-crossing render call, every track's pending clip is what it would be
\* had nothing been staged.
C2_NoEffectBeforeNextWrap ==
  [][(wrapped /\ last'.op # "postPendingTracks") =>
       \A T \in Tracks :
         m_mapTracks'[T].m_pPendingClip \in
           {m_mapTracks[T].m_pPendingClip,
            PostPendingTracks(m_mapTracks, EmptyMap)[T].m_pPendingClip}]_vars

\* C2 (as amended): UpdatePendingClips changes no track, and outside the
\* post-pending steps (the wrap's and Play's) no track's pending clip changes
\* and a track's active clip only ever becomes its own pending clip, so what
\* is staged reaches a track in a post-pending step only.
C2_OnlyPostStepsApplyStaged ==
  [][\A T \in Tracks :
       /\ last'.op = "UpdatePendingClips" => m_mapTracks'[T] = m_mapTracks[T]
       /\ last'.op \notin PostSteps =>
            /\ m_mapTracks'[T].m_pPendingClip = m_mapTracks[T].m_pPendingClip
            /\ m_mapTracks'[T].m_pPendingTrack \in
                 {m_mapTracks[T].m_pPendingTrack, m_mapTracks[T].m_pPendingClip}]_vars

\* after a wrap, UpdatePendingClips has staged a clip that is not the track's
\* pending clip
C2_Witness ==
  /\ last.op = "UpdatePendingClips"
  /\ last.ret
  /\ wrapped
  /\ \E T \in Staged : m_mapTracks[T].m_pPendingClip # m_mapPendingTracks[T]

\* C3: no step of the control thread changes the active or pending clip of a
\* track while the audio thread is inside that track's GetAudio.
C3_NoControlWriteDuringGetAudio ==
  [][(last'.thread = "control" /\ rpc = "fade") =>
       /\ m_mapTracks'[rcur].m_pPendingClip = m_mapTracks[rcur].m_pPendingClip
       /\ m_mapTracks'[rcur].m_pPendingTrack = m_mapTracks[rcur].m_pPendingTrack]_vars

\* C4 (as stated, for the tracks with a request): when a render call that
\* crossed the loop boundary returns, every track, whatever its clip length,
\* for which the call posted a request that is still its pending clip is
\* active on the requested clip.
C4_EveryTrackPromotesAtWrap ==
  (last.op = "onGetData" /\ last.ret /\ m_nLastSamplePos = 0) =>
    \A T \in DOMAIN posted :
      m_mapTracks[T].m_pPendingClip = posted[T] =>
        m_mapTracks[T].m_pPendingTrack = posted[T]

\* C4 (as amended): in a render call that crosses the loop boundary, GetAudio
\* leaves a track's pending clip alone and makes it the active clip exactly
\* when the track has no active clip or the call's window crosses the end of
\* the track's own active clip, which it always does when that clip has the
\* global loop length; otherwise the track keeps its active clip.
C4_PromotionAtClipEnd ==
  [][(last'.op = "GetAudio"
      /\ WillLoop(m_vMixBufferSize, m_nLastSamplePos, m_nMaxSampleCount)) =>
       LET T == last'.clips[1]
           old == m_mapTracks[T]
           new == m_mapTracks'[T]
       IN  /\ new.m_pPendingClip = old.m_pPendingClip
           /\ new.m_pPendingTrack =
                IF old.m_pPendingTrack = NoClip \/ CrossesClipEnd(old)
                THEN old.m_pPendingClip
                ELSE old.m_pPendingTrack
           /\ (old.m_pPendingTrack # NoClip
               /\ SampleCountOf(old.m_pPendingTrack) = m_nMaxSampleCount) =>
                CrossesClipEnd(old)]_vars

\* in a call that crosses the loop boundary, GetAudio of drums, whose clips
\* are shorter than the loop, has returned: "b" was posted for it and is
\* pending, and "a" is still active
C4_Witness ==
  /\ last.op = "GetAudio"
  /\ last.clips = <<"drums">>
  /\ WillLoop(m_vMixBufferSize, m_nLastSamplePos, m_nMaxSampleCount)
  /\ "drums" \in DOMAIN posted
  /\ posted["drums"] = "b"
  /\ m_mapTracks["drums"].m_pPendingClip = "b"
  /\ m_mapTracks["drums"].m_pPendingTrack = "a"

\* C5: when a post-pending step completes, each track with a staged request
\* has the requested clip pending, every other track has no pending clip, the
\* staged map is empty and needs-audio is true.
C5_PostPendingResult ==
  last.op \in PostSteps =>
    /\ \A T \in Tracks :
         m_mapTracks[T].m_pPendingClip =
           IF T \in DOMAIN last.posted THEN last.posted[T] ELSE NoClip
    /\ m_mapPendingTracks = EmptyMap
    /\ m_bNeedsAudio

\* C6: UpdatePendingClips returns true exactly when one of the names it was
\* given is held by some track.
C6_ReturnsOwnStaging ==
  last.op = "UpdatePendingClips" =>
    (last.ret <=> \E i \in 1..Len(last.clips) : \E T \in Tracks :
                     HasClip(m_mapTracks[T], last.clips[i]))

\* C7: UpdatePendingClips writes, for each requested name some track holds,
\* the entry of the first track in name order holding it (the last such name
\* of the list staying), and clears needs-audio; names no track holds stage
\* nothing; with no match the map and the flag are unchanged; no track's
\* active or pending clip changes.
C7_StagingWritesFirstHolder ==
  [][last'.op = "UpdatePendingClips" =>
       LET clips == last'.clips
           anyHeld == \E i \in 1..Len(clips) : \E T \in Tracks :
                         HasClip(m_mapTracks[T], clips[i])
       IN  /\ \A T \in Tracks \cup Staged \cup DOMAIN m_mapPendingTracks' :
                LET hits == Hits(m_mapTracks, clips, T)
                IN  IF hits = {}
                    THEN /\ (T \in DOMAIN m_mapPendingTracks') = (T \in Staged)
                         /\ T \in Staged =>
                              m_mapPendingTracks'[T] = m_mapPendingTracks[T]
                    ELSE /\ T \in DOMAIN m_mapPendingTracks'
                         /\ m_mapPendingTracks'[T] = clips[MaxOf(hits)]
           /\ m_bNeedsAudio' = (m_bNeedsAudio /\ ~anyHeld)
           /\ m_mapTracks' = m_mapTracks]_vars

\* "a" is held by bass and by drums and is staged for bass; "b" for drums
C7_Witness ==
  /\ last.op = "UpdatePendingClips"
  /\ last.clips = <<"a", "b">>
  /\ {"bass", "drums"} \subseteq Tracks
  /\ HasClip(m_mapTracks["bass"], "a") /\ HasClip(m_mapTracks["drums"], "a")
  /\ m_mapPendingTracks = [n \in {"bass", "drums"} |-> IF n = "bass" THEN "a" ELSE "b"]
  /\ ~m_bNeedsAudio

\* C8: of two requests staged for one track before a post-pending step, the
\* later replaces the earlier in the staged map, and the post-pending step
\* makes the later clip, never the earlier, the track's pending clip.
C8_LastRequestWins ==
  /\ \A T \in DOMAIN superseded :
       /\ T \in Staged
       /\ m_mapPendingTracks[T] = superseded[T][2]
       /\ m_mapPendingTracks[T] # superseded[T][1]
  /\ last.op \in {"postPendingTracks", "Play"} =>
       \A T \in DOMAIN last.superseded :
         /\ T \in Tracks
         /\ m_mapTracks[T].m_pPendingClip = last.superseded[T][2]
         /\ m_mapTracks[T].m_pPendingClip # last.superseded[T][1]

\* a wrap's post-pending step has just applied a request that replaced another
C8_Witness ==
  /\ last.op = "postPendingTracks"
  /\ last.thread = "audio"
  /\ \E T \in DOMAIN last.superseded :
       m_mapTracks[T].m_pPendingClip = last.superseded[T][2]

\* C9: after a successful Initialize the render position is at least 0 and
\* below the largest sample count of the tracks the mixer owns.
C9_PositionInRange ==
  initState = "ok" =>
    /\ 0 <= m_nLastSamplePos
    /\ m_nLastSamplePos < MaxTrackSampleCount

\* a render call has just wrapped the position, with a track added by AddTrack
C9_Witness ==
  /\ initState = "ok"
  /\ last.op = "onGetData"
  /\ last.ret
  /\ wrapped
  /\ m_nLastSamplePos = 0
  /\ "keys" \in Tracks

\* C10: after a successful Initialize the loop length onGetData uses is the
\* largest sample count of the tracks the mixer owns.
C10_LoopLengthIsMaxTrack ==
  initState = "ok" => m_nMaxSampleCount = MaxTrackSampleCount

\* C11: a render call reports failure exactly when the mix buffer is empty; a
\* failing call leaves the position, the staged map, the flag, the mutex and
\* every track as they were and runs no post-pending step; a call with a
\* non-empty buffer is never failed, also when every track is silent.
C11_FailsIffBufferEmpty ==
  [][/\ last'.op = "onGetData" =>
          /\ last'.ret = (m_vMixBufferSize # 0)
          /\ ~last'.ret =>
               /\ rpc = "idle" /\ rpc' = "idle"
               /\ UNCHANGED <<m_mapTracks, mixer, shared, m_muTrackUpdate, posted>>
     /\ rpc' # "idle" => m_vMixBufferSize' # 0]_vars

\* a render call has failed on a mixer whose Initialize reported success
C11_Witness ==
  /\ last.op = "onGetData"
  /\ ~last.ret
  /\ initState = "ok"
  /\ m_vMixBufferSize = 0
  /\ Tracks # {}

\* a render call has succeeded with every track silent
C11_SilentSuccess ==
  /\ last.op = "onGetData"
  /\ last.ret
  /\ Tracks # {}
  /\ \A T \in Tracks :
       m_mapTracks[T].m_pPendingTrack = NoClip /\ m_mapTracks[T].m_pPendingClip = NoClip

\* C12: once Initialize has returned success the mix buffer is not empty and
\* no render call fails.
C12_SuccessMeansBuffer ==
  initState = "ok" =>
    /\ m_vMixBufferSize > 0
    /\ last.op = "onGetData" => last.ret

\* C13 (as stated): Initialize returns success exactly when some track of the
\* resulting set has loaded a clip.
C13_FailsIffNoClipLoaded ==
  last.op = "Initialize" =>
    (last.ret <=> \E T \in Tracks : m_mapTracks[T].m_mapClips # {})

\* C13 (as amended): Initialize returns failure exactly when the resulting
\* track set is empty, a track none of whose clips loaded counting as a track;
\* on success the mix buffer holds floor(min / 64) samples, which is none when
\* min < 64, and the loop length is max, min and max being taken over
\* GetSampleCount of all tracks (1 for a track without clips); on failure
\* nothing changes.
C13_FailsIffNoTrack ==
  [][last'.op = "Initialize" =>
       LET counts == {GetSampleCount(m_mapTracks'[T]) : T \in DOMAIN m_mapTracks'}
       IN  /\ last'.ret = (DOMAIN m_mapTracks' # {})
           /\ last'.ret =>
                /\ m_vMixBufferSize' = MinOf(counts) \div 64
                /\ m_nMaxSampleCount' = MaxOf(counts)
           /\ ~last'.ret => UNCHANGED <<m_mapTracks, mixer>>]_vars

\* Initialize has returned success with a single track that loaded no clip:
\* the buffer is empty and the loop is one sample long
C13_Witness ==
  /\ last.op = "Initialize"
  /\ last.ret
  /\ Tracks # {}
  /\ \A T \in Tracks : m_mapTracks[T].m_mapClips = {}
  /\ m_vMixBufferSize = 0
  /\ m_nMaxSampleCount = 1

\* C14: AddTrack returns true whatever it is given and changes neither the
\* position, the buffer size, the staged map, the flag nor any track that
\* existed before the call, one of the same name included.
C14_AddTrackFrame ==
  [][last'.op = "AddTrack" =>
       /\ last'.ret
       /\ UNCHANGED <<m_nLastSamplePos, m_vMixBufferSize, m_mapPendingTracks,
                      m_bNeedsAudio>>
       /\ \A T \in Tracks : m_mapTracks'[T] = m_mapTracks[T]]_vars

\* AddTrack was given the name of the existing track drums and a file that
\* does not load: it returned true and drums still has its clips
C14_Witness ==
  /\ last.op = "AddTrack"
  /\ last.ret
  /\ last.clips = <<"missing">>
  /\ Tracks = {"bass", "drums"}
  /\ m_mapTracks["drums"].m_mapClips = {"a", "b"}

\* the clip the last call on trk rendered: the active clip, or the pending
\* one where there was no active clip
CallActive ==
  IF call.before.m_pPendingTrack = NoClip
  THEN call.before.m_pPendingClip
  ELSE call.before.m_pPendingTrack

\* the last call on trk was a GetAudio that had a clip to render
CallRenders == call.op = "GetAudio" /\ CallActive # NoClip

CallOffset == call.nCurSamplePos % SampleCountOf(CallActive)

\* the window of the last GetAudio reaches or passes the end of the clip
CallCrosses == CallOffset + call.nSamplesDesired >= SampleCountOf(CallActive)

\* slot i holds what it held plus the clip's sample at src scaled by 0.5
Unfaded(i, src) ==
  call.buf[i] = Trunc(2 * call.prior[i] + Samples(CallActive, src), 2)

\* C15: SetPendingTrack(name) returns true and makes the clip called name the
\* pending clip when the track holds it, returns false and makes the pending
\* clip none when it does not, and changes nothing else of the track.
C15_SetPendingTrackContract ==
  call.op = "SetPendingTrack" =>
    LET old == call.before
        held == call.name \in old.m_mapClips
    IN  /\ call.ret = held
        /\ trk.m_pPendingClip = IF held THEN call.name ELSE NoClip
        /\ trk.m_pPendingTrack = old.m_pPendingTrack
        /\ trk.m_mapClips = old.m_mapClips
        /\ trk.m_nFadeSamples = old.m_nFadeSamples
        /\ trk.m_nSampleCount = old.m_nSampleCount

\* a name the track does not hold has cleared the pending clip of a track that
\* is playing a clip
C15_Witness ==
  /\ call.op = "SetPendingTrack"
  /\ ~call.ret
  /\ call.before.m_pPendingClip # NoClip
  /\ trk.m_pPendingClip = NoClip
  /\ trk.m_pPendingTrack # NoClip

\* C16: a SetPendingTrack(name) that follows a SetPendingTrack(name) leaves
\* the track as the first call left it and returns what the first returned.
C16_SetPendingTrackIdempotent ==
  call.repeat =>
    /\ trk = call.before
    /\ call.ret = call.prevRet

\* the second of two calls naming a clip the track holds has returned
C16_Witness ==
  /\ call.repeat
  /\ call.ret
  /\ trk.m_pPendingClip = call.name
  /\ trk.m_pPendingTrack # NoClip
  /\ trk.m_pPendingTrack # call.name

\* C17: GetAudio on a track with no active and no pending clip returns false,
\* writes no slot, inside the window or outside, so that the buffer is as it
\* was, and leaves both clips none.
C17_SilentTrack ==
  (call.op = "GetAudio"
   /\ call.before.m_pPendingTrack = NoClip /\ call.before.m_pPendingClip = NoClip) =>
    /\ ~call.ret
    /\ call.copySlots = {} /\ call.fadeSlots = {}
    /\ call.buf = call.prior
    /\ trk.m_pPendingTrack = NoClip /\ trk.m_pPendingClip = NoClip
    /\ trk = call.before

\* GetAudio has returned false on a track that holds clips but has none
\* active or pending, with a buffer other tracks had written to
C17_Witness ==
  /\ call.op = "GetAudio"
  /\ ~call.ret
  /\ trk.m_mapClips # {}
  /\ call.nSamplesDesired = MaxWindow
  /\ \E i \in DOMAIN call.prior : call.prior[i] # 0
  /\ call.buf = call.prior

\* C18: a GetAudio whose window reaches or passes the end of the active clip,
\* on a track with fade length F <= samplesDesired, adds samplesDesired - F
\* unfaded samples to slots 0..samplesDesired-F-1 and F faded ones to the
\* slots after them, the j-th with weight 1 - j/F, which decreases strictly
\* from below 1 to 0.
C18_CrossfadeWindow ==
  (CallRenders /\ CallCrosses /\ call.before.m_nFadeSamples <= call.nSamplesDesired) =>
    LET n == call.nSamplesDesired
        F == call.before.m_nFadeSamples
    IN  /\ call.ret
        /\ call.copySlots = 0..(n - F - 1)
        /\ \A i \in call.copySlots :
             CallOffset + i < SampleCountOf(CallActive) => Unfaded(i, CallOffset + i)
        /\ call.fadeSlots = (n - F)..(n - 1)
        /\ Len(call.weights) = F
        /\ \A j \in 1..F :
             /\ call.weights[j][2] = F
             /\ call.weights[j][1] = F - j
             /\ call.weights[j][1] < call.weights[j][2]
             /\ j > 1 => call.weights[j][1] < call.weights[j - 1][1]
        /\ F > 0 => call.weights[F][1] = 0

\* a window of three samples has crossed the end of a clip with fade length 2:
\* one unfaded sample, then two faded ones
C18_Witness ==
  /\ CallRenders
  /\ CallCrosses
  /\ call.before.m_nFadeSamples = 2
  /\ call.nSamplesDesired = 3
  /\ call.copySlots = {0}
  /\ call.fadeSlots = {1, 2}
  /\ call.weights = <<(<<1, 2>>), (<<0, 2>>)>>

\* C19: in a GetAudio whose window reaches or passes the end of the active
\* clip with fade length >= samplesDesired, no slot is copied unfaded and the
\* crossfade writes exactly the slots 0..samplesDesired-1.
C19_FadeClampedToWindow ==
  (CallRenders /\ CallCrosses /\ call.before.m_nFadeSamples >= call.nSamplesDesired) =>
    /\ call.copySlots = {}
    /\ call.fadeSlots = 0..(call.nSamplesDesired - 1)
    /\ \A i \in call.copySlots \cup call.fadeSlots : i \in DOMAIN call.prior

\* C20 (as stated): every window of a full-length render (windows of size n
\* dividing the clip length L, starting at multiples of n, ending at or
\* before L) of a track with an active clip and no pending clip takes no
\* crossfade path and adds the scaled source sample to each of its slots.
C20_FullLengthNoFade ==
  (CallRenders
   /\ call.before.m_pPendingTrack # NoClip /\ call.before.m_pPendingClip = NoClip
   /\ SampleCountOf(CallActive) % call.nSamplesDesired = 0
   /\ call.nCurSamplePos % call.nSamplesDesired = 0
   /\ call.nCurSamplePos + call.nSamplesDesired <= SampleCountOf(CallActive)) =>
    /\ ~call.bLoop
    /\ call.fadeSlots = {}
    /\ call.copySlots = 0..(call.nSamplesDesired - 1)
    /\ \A i \in 0..(call.nSamplesDesired - 1) : Unfaded(i, call.nCurSamplePos + i)

\* C20 (as amended): of these windows, those that end before L take no
\* crossfade path, add the scaled source sample to each of their slots and
\* leave the track as it was; the last one, which ends at L, takes the
\* crossfade path: only its first n - F slots get the unfaded scaled sample,
\* the F slots from n - F to n - 1 are faded towards 0, and the track is left
\* without an active clip.
C20_FullLengthFadesLastWindow ==
  (CallRenders
   /\ call.before.m_pPendingTrack # NoClip /\ call.before.m_pPendingClip = NoClip
   /\ SampleCountOf(CallActive) % call.nSamplesDesired = 0
   /\ call.nCurSamplePos % call.nSamplesDesired = 0
   /\ call.nCurSamplePos + call.nSamplesDesired <= SampleCountOf(CallActive)) =>
    LET n == call.nSamplesDesired
        F == call.before.m_nFadeSamples
        pos == call.nCurSamplePos
    IN  IF pos + n < SampleCountOf(CallActive)
        THEN /\ ~call.bLoop
             /\ call.fadeSlots = {}
             /\ call.copySlots = 0..(n - 1)
             /\ \A i \in 0..(n - 1) : Unfaded(i, pos + i)
             /\ trk = call.before
        ELSE /\ call.bLoop
             /\ call.copySlots = 0..(n - F - 1)
             /\ \A i \in call.copySlots : Unfaded(i, pos + i)
             /\ call.fadeSlots = (n - F)..(n - 1)
             /\ trk.m_pPendingTrack = NoClip
             /\ trk.m_pPendingClip = NoClip

\* the last window of a full-length render in windows of two samples: one
\* slot unfaded, one faded, and the clip is no longer active
C20_Witness ==
  /\ CallRenders
  /\ call.before.m_pPendingTrack # NoClip /\ call.before.m_pPendingClip = NoClip
  /\ call.nSamplesDesired = 2
  /\ call.nCurSamplePos + 2 = SampleCountOf(CallActive)
  /\ call.before.m_nFadeSamples = 1
  /\ call.copySlots = {0}
  /\ call.fadeSlots = {1}
  /\ trk.m_pPendingTrack = NoClip

\* C21: in every state the needs-audio flag is true exactly when no request
\* is staged, and NeedsAudio returns that flag: true from construction and
\* from each post-pending step until a request is staged, false from then
\* until the next post-pending step.
C21_FlagIffNothingStaged ==
  /\ m_bNeedsAudio <=> (m_mapPendingTracks = EmptyMap)
  /\ last.op = "NeedsAudio" => last.ret = (m_mapPendingTracks = EmptyMap)
  /\ last.op \in PostSteps => m_bNeedsAudio
  /\ (last.op = "UpdatePendingClips"
        /\ \E i \in 1..Len(last.clips) :
             FirstTrackWith(m_mapTracks, last.clips[i]) # NoTrack)
       => ~m_bNeedsAudio

\* NeedsAudio has returned false, with a request staged, after a render call
\* that crossed the loop boundary had cleared the requests staged before
C21_Witness ==
  /\ wrapped
  /\ last.op = "NeedsAudio"
  /\ last.ret = FALSE
  /\ m_mapPendingTracks # EmptyMap

\* the step is the audio thread's entry into Track::GetAudio for track T, in
\* the first render call begun after the Play that took a request for T
FirstRenderOfFlushed(T) ==
  /\ flushed.first
  /\ rpc = "tracks"
  /\ rcur = T
  /\ T \in DOMAIN flushed.req
  /\ last'.thread = "audio"
  /\ last'.op \in {"GetAudio", "GetAudioCopy"}

\* what Play has done when it returns: every request staged before it is its
\* track's pending clip, the staged map is empty and the flag is true
PlayFlushes ==
  last'.op = "Play" =>
    /\ \A T \in Staged : m_mapTracks'[T].m_pPendingClip = m_mapPendingTracks[T]
    /\ m_mapPendingTracks' = EmptyMap
    /\ m_bNeedsAudio'

\* C22 (as stated): when Play returns, every request staged before it has
\* been applied to its track's pending clip, the staged map is empty and the
\* flag is true; and the first render call after Play renders each requested
\* track from its requested clip.
C22_FirstRenderPlaysRequested ==
  [][/\ PlayFlushes
     /\ \A T \in Tracks :
          FirstRenderOfFlushed(T) =>
            /\ last'.ret
            /\ m_mapTracks'[T].m_pPendingTrack = flushed.req[T]]_vars

\* C22 (as amended): when Play returns, every request staged before it has
\* been applied to its track's pending clip, the staged map is empty and the
\* flag is true; in the first render call after Play a requested track that
\* has no active clip, and whose pending clip is still the requested one,
\* renders from the requested clip, and a requested track that has an active
\* clip goes on rendering from that clip.
C22_FirstRenderBootstrapsRequested ==
  [][/\ PlayFlushes
     /\ \A T \in Tracks :
          FirstRenderOfFlushed(T) =>
            IF m_mapTracks[T].m_pPendingTrack = NoClip
            THEN m_mapTracks[T].m_pPendingClip = flushed.req[T] =>
                   /\ last'.ret
                   /\ m_mapTracks'[T].m_pPendingTrack = flushed.req[T]
            ELSE /\ last'.ret
                 /\ m_mapTracks'[T].m_pPendingTrack = m_mapTracks[T].m_pPendingTrack]_vars

\* the first render call of all, begun after a Play that took a request, has
\* rendered the requested track from the requested clip
C22_Witness ==
  /\ flushed.first
  /\ ~wrapped
  /\ m_nLastSamplePos = 0
  /\ last.op = "GetAudio"
  /\ last.ret
  /\ last.clips[1] \in DOMAIN flushed.req
  /\ m_mapTracks[last.clips[1]].m_pPendingTrack = flushed.req[last.clips[1]]

\* C23: AddClip(name) whose load fails returns false and leaves the track as
\* it was; one whose load succeeds returns true, inserts the clip, leaves the
\* active and the pending clip alone, and sets the canonical sample count and
\* the fade length only when it is the first clip added: a later successful
\* AddClip changes neither.
C23_AddClipFrame ==
  call.op = "AddClip" =>
    LET f == call.name
        b == call.before
    IN  IF ~LoadFromFile(f)
        THEN ~call.ret /\ trk = b
        ELSE /\ call.ret
             /\ trk.m_mapClips = b.m_mapClips \cup {f}
             /\ trk.m_pPendingTrack = b.m_pPendingTrack
             /\ trk.m_pPendingClip = b.m_pPendingClip
             /\ IF b.m_mapClips = {}
                THEN /\ trk.m_nSampleCount = SampleCountOf(f)
                     /\ trk.m_nFadeSamples = (FadeMs * SampleRateOf(f)) \div 1000
                ELSE /\ trk.m_nSampleCount = b.m_nSampleCount
                     /\ trk.m_nFadeSamples = b.m_nFadeSamples

\* C24: a render call that succeeds adds the mix buffer's size to the
\* position and resets it to 0 when the sum reaches the loop length; the
\* call runs the post-pending step exactly when it ends with the position at
\* 0, and runs it before the GetAudio of any track.
C24_PostStepIffWrap ==
  [][/\ (last'.op = "onGetData" /\ last'.ret) =>
          /\ m_nLastSamplePos' =
               IF m_nLastSamplePos + m_vMixBufferSize >= m_nMaxSampleCount
               THEN 0 ELSE m_nLastSamplePos + m_vMixBufferSize
          /\ postRan <=> (m_nLastSamplePos' = 0)
     /\ (last'.op = "postPendingTracks" /\ last'.thread = "audio") =>
          /\ ~postRan
          /\ rcur = NoTrack
          /\ rcur' = BeginTrack(m_mapTracks)
     /\ (last'.op \in {"GetAudio", "GetAudioCopy"}) =>
          (postRan <=>
             m_nLastSamplePos + m_vMixBufferSize >= m_nMaxSampleCount)]_vars

\* a track has been rendered in a render call that ran the post-pending step
\* first and will end with the position back at 0
C24_Witness ==
  /\ last.op = "GetAudio"
  /\ last.ret
  /\ postRan
  /\ m_nLastSamplePos > 0
  /\ m_nLastSamplePos + m_vMixBufferSize >= m_nMaxSampleCount

\* the sample of the clip rendered that the crossfade loop reads for slot i
\* of the last GetAudio
CallFadeSource(i) ==
  FadeSource(CallOffset, call.nSamplesDesired - call.before.m_nFadeSamples, i)

\* C25: after a GetAudio whose window crosses the end of the active clip the
\* active clip is the clip that was pending when the call began (none when
\* none was pending, and then the block fades towards 0), the pending clip is
\* what it was, and so a track whose active and pending clip are the same
\* keeps that clip active over every wrap.
C25_PromotionAtCrossing ==
  (CallRenders /\ CallCrosses) =>
    LET b == call.before
        n == call.nSamplesDesired
        F == b.m_nFadeSamples
    IN  /\ call.ret
        /\ trk.m_pPendingTrack = b.m_pPendingClip
        /\ trk.m_pPendingClip = b.m_pPendingClip
        /\ trk.m_mapClips = b.m_mapClips
        /\ b.m_pPendingClip = b.m_pPendingTrack => trk = b
        /\ b.m_pPendingClip = NoClip =>
             /\ trk.m_pPendingTrack = NoClip
             /\ \A i \in call.fadeSlots \cap DOMAIN call.buf :
                  CallFadeSource(i) < SampleCountOf(CallActive) =>
                    call.buf[i] = call.prior[i] +
                      Ceil((F - (i - (n - F) + 1)) *
                             Trunc(Samples(CallActive, CallFadeSource(i)), 2), F)
             /\ (F >= 1) => call.buf[n - 1] = call.prior[n - 1]

\* a window has crossed the end of the active clip with another clip
\* pending: that clip is now active and still pending
C25_Witness ==
  /\ CallRenders
  /\ CallCrosses
  /\ call.fadeSlots # {}
  /\ call.before.m_pPendingTrack # NoClip
  /\ call.before.m_pPendingClip # NoClip
  /\ call.before.m_pPendingClip # call.before.m_pPendingTrack
  /\ trk.m_pPendingTrack = call.before.m_pPendingClip
  /\ trk.m_pPendingClip = call.before.m_pPendingClip

\* C26: a GetAudio on a track with no active clip and a pending clip makes
\* the pending clip active before rendering, renders that clip from the
\* offset the position gives in it, leaves the pending clip as it is and
\* returns true; a GetAudio that does not cross the end of the active clip
\* changes neither the active nor the pending clip.
C26_Bootstrap ==
  /\ (call.op = "GetAudio"
      /\ call.before.m_pPendingTrack = NoClip
      /\ call.before.m_pPendingClip # NoClip) =>
       LET p == call.before.m_pPendingClip
           offset == call.nCurSamplePos % SampleCountOf(p)
       IN  /\ call.ret
           /\ trk = [call.before EXCEPT !.m_pPendingTrack = p]
           /\ \A i \in call.copySlots :
                /\ CopySource(offset, i) \in call.reads
                /\ offset + i < SampleCountOf(p) =>
                     call.buf[i] = Trunc(2 * call.prior[i] + Samples(p, offset + i), 2)
           /\ \A idx \in call.reads : idx >= offset
           /\ ~CallCrosses => call.copySlots = 0..(call.nSamplesDesired - 1)
  /\ (CallRenders /\ call.before.m_pPendingTrack # NoClip /\ ~CallCrosses) =>
       /\ call.ret
       /\ trk = call.before

\* a track with only a pending clip has been rendered from the middle of that
\* clip, in a window that ends before the clip does
C26_Witness ==
  /\ call.op = "GetAudio"
  /\ call.ret
  /\ call.before.m_pPendingTrack = NoClip
  /\ call.before.m_pPendingClip # NoClip
  /\ trk.m_pPendingTrack = call.before.m_pPendingClip
  /\ call.nCurSamplePos % SampleCountOf(call.before.m_pPendingClip) > 0
  /\ ~CallCrosses
  /\ call.nSamplesDesired > 1

\* C27 (as stated): a track's active clip changes only from none to a clip
\* (bootstrap) or from a clip to a clip at a wrap; once a track has an active
\* clip it has one in every later state.
C27_ActiveNeverLost ==
  [][\A T \in Tracks :
       m_mapTracks[T].m_pPendingTrack # NoClip =>
         m_mapTracks'[T].m_pPendingTrack # NoClip]_vars

\* C27 (as amended): a track's active clip changes only inside that track's
\* GetAudio, and only to the track's pending clip: from none to the pending
\* clip (bootstrap), or, when the window crosses the end of the active clip,
\* to the pending clip, which is the same clip, another clip, or none; a
\* GetAudio that returns after crossing the end of the active clip always
\* leaves the pending clip active, so a track with an active clip and no
\* pending clip returns to having no active clip.
C27_ActiveFollowsPending ==
  [][\A T \in Tracks :
       LET old == m_mapTracks[T]
           new == m_mapTracks'[T]
       IN  /\ new.m_pPendingTrack # old.m_pPendingTrack =>
                /\ last'.thread = "audio"
                /\ last'.op \in {"GetAudio", "GetAudioCopy"}
                /\ last'.clips = <<T>>
                /\ new.m_pPendingTrack = old.m_pPendingClip
                /\ old.m_pPendingTrack = NoClip \/ CrossesClipEnd(old)
           /\ (last'.op = "GetAudio" /\ last'.clips = <<T>> /\ last'.ret
               /\ old.m_pPendingTrack # NoClip /\ CrossesClipEnd(old)) =>
                new.m_pPendingTrack = old.m_pPendingClip]_vars

\* a track that was rendering has crossed the end of its clip with nothing
\* pending and has no active clip any more
C27_Witness ==
  /\ last.op = "GetAudio"
  /\ last.ret
  /\ m_mapTracks[last.clips[1]].m_pPendingTrack = NoClip
  /\ m_mapTracks[last.clips[1]].m_pPendingClip = NoClip

ControlInside == cpc \in {"UpdatePendingClips", "NeedsAudio", "Play"}

AudioInside == rpc = "post"

\* C29: the staged map and the needs-audio flag are read or written only by
\* a thread that holds the mutex, in UpdatePendingClips, NeedsAudio and the
\* post-pending step, and at most one thread is inside such a critical
\* section at a time.
C29_MutualExclusion ==
  [][/\ ~(ControlInside /\ AudioInside)
     /\ ControlInside => m_muTrackUpdate = "control"
     /\ AudioInside => m_muTrackUpdate = "audio"
     /\ shared' # shared =>
          /\ m_muTrackUpdate = last'.thread
          /\ last'.op \in {"UpdatePendingClips"} \cup PostSteps
     /\ last'.op \in {"UpdatePendingClips", "NeedsAudio"} \cup PostSteps =>
          /\ m_muTrackUpdate = last'.thread
          /\ IF last'.thread = "control" THEN ControlInside ELSE AudioInside
          /\ m_muTrackUpdate' = Unlocked]_vars

\* the control thread is inside UpdatePendingClips, holding the mutex, while
\* the audio thread waits at the lock of postPendingTracks
C29_Witness ==
  /\ cpc = "UpdatePendingClips"
  /\ m_muTrackUpdate = "control"
  /\ rpc = "lock"
  /\ m_mapPendingTracks # EmptyMap

\* C30: no operation takes the mutex while it holds it, the mutex is held
\* only inside a critical section, which ends without waiting for the other
\* thread, and Track::GetAudio runs without the mutex; so, under fair
\* scheduling, every render call, every UpdatePendingClips, NeedsAudio and
\* Play call and every hold of the mutex comes to its end.
C30_NoDeadlock ==
  /\ [][last'.op = "lock" =>
          /\ m_muTrackUpdate = Unlocked
          /\ m_muTrackUpdate' = last'.thread]_vars
  /\ [](m_muTrackUpdate = "control" <=> ControlInside)
  /\ [](m_muTrackUpdate = "audio" <=> AudioInside)
  /\ [](rpc \in {"tracks", "fade"} => m_muTrackUpdate # "audio")
  /\ (rpc # "idle") ~> (rpc = "idle")
  /\ (cpc # "idle") ~> (cpc = "idle")
  /\ (m_muTrackUpdate # Unlocked) ~> (m_muTrackUpdate = Unlocked)

\* the audio thread, in a render call that crosses the loop boundary, waits
\* at the lock of postPendingTracks while the control thread is inside Play
C30_Witness ==
  /\ rpc = "lock"
  /\ cpc = "Play"
  /\ m_muTrackUpdate = "control"
  /\ m_mapPendingTracks # EmptyMap

\* the render calls still to begin, the one that crosses the loop boundary
\* included, when the position is pos: ceil((loop length - pos) / buffer size)
CallsToWrap(pos) == Ceil(m_nMaxSampleCount - pos, m_vMixBufferSize)

\* C31: once Initialize has succeeded and for as long as render calls keep
\* coming, every staged request is taken by a post-pending step, that of the
\* next render call that crosses the loop boundary at the latest, which is
\* at most ceil(loop length / buffer size) render calls away, and the
\* needs-audio flag is true again.
C31_EventuallyApplied ==
  /\ [](playing /\ ~MixBufferEmpty(m_vMixBufferSize) =>
          /\ CallsToWrap(m_nLastSamplePos) >= 1
          /\ CallsToWrap(m_nLastSamplePos) <= CallsToWrap(0))
  /\ [][(last'.op = "onGetData" /\ last'.ret) =>
          /\ CallsToWrap(m_nLastSamplePos) = 1 <=> postRan
          /\ CallsToWrap(m_nLastSamplePos) > 1 =>
               CallsToWrap(m_nLastSamplePos') = CallsToWrap(m_nLastSamplePos) - 1
          /\ CallsToWrap(m_nLastSamplePos) = 1 =>
               CallsToWrap(m_nLastSamplePos') = CallsToWrap(0)]_vars
  /\ [][last'.op \in PostSteps =>
          /\ m_mapPendingTracks' = EmptyMap
          /\ m_bNeedsAudio'
          /\ \A T \in Staged : m_mapTracks'[T].m_pPendingClip = m_mapPendingTracks[T]]_vars
  /\ (playing /\ ~MixBufferEmpty(m_vMixBufferSize) /\ m_mapPendingTracks # EmptyMap)
       ~> (m_mapPendingTracks = EmptyMap /\ m_bNeedsAudio)

\* a request staged while the stream plays has been taken by the post-pending
\* step of the render call that crosses the loop boundary
C31_Witness ==
  /\ playing
  /\ last.op = "postPendingTracks"
  /\ last.thread = "audio"
  /\ last.posted # EmptyMap
  /\ m_mapPendingTracks = EmptyMap
  /\ m_bNeedsAudio
  /\ CallsToWrap(m_nLastSamplePos) = 1

\* the samples of its active clip that the GetAudio the audio thread is about
\* to enter for track T will read
RenderReads(T) ==
  GetAudioRender(m_mapTracks[T], NoBuffer, m_vMixBufferSize, m_nLastSamplePos, 0).reads

\* C32: every GetAudio that a render call makes reads only samples of the
\* active clip at indices from 0 to the clip's length - 1, also in the call
\* that crosses the clip's end when the length is not a multiple of the mix
\* buffer's size.
C32_ReadsInBounds ==
  [][\A T \in Tracks :
       (rpc = "tracks" /\ rcur = T /\ last'.thread = "audio"
        /\ last'.op \in {"GetAudio", "GetAudioCopy"} /\ last'.ret) =>
          \A idx \in RenderReads(T) :
            /\ idx >= 0
            /\ idx < SampleCountOf(m_mapTracks'[T].m_pPendingTrack)]_vars

\* C33: the value accumulated in a slot of the mix buffer during a render
\* call, whatever the tracks rendering, stays in the signed 16-bit range: the
\* sum a GetAudio forms for a slot, from what the tracks before it have added
\* and its own sample, never leaves the range.
C33_NoMixOverflow ==
  call.op = "GetAudio" =>
    \A i \in DOMAIN call.sums :
      /\ call.sums[i] >= Int16Min
      /\ call.sums[i] <= Int16Max


\* the render call in progress is the first one after playback started
FirstRenderCall ==
  /\ playing
  /\ rpc \in {"tracks", "fade"}
  /\ m_nLastSamplePos = 0
  /\ ~wrapped

\* C34 as stated: a clip made pending on a track through GetTrack and
\* SetPendingTrack before playback, with nothing staged for that track, is
\* still the track's pending clip when Play returns, and is the clip the
\* track renders in the first render call.
C34_SeedSurvivesPlay ==
  /\ [][last'.op = "Play" =>
          \A T \in DOMAIN seeded \ Staged :
            m_mapTracks'[T].m_pPendingClip = seeded[T]]_vars
  /\ [][(FirstRenderCall /\ last'.op = "GetAudio" /\ rcur \in DOMAIN seeded) =>
          /\ last'.ret
          /\ m_mapTracks'[rcur].m_pPendingTrack = seeded[rcur]]_vars

\* C34: Play silences every track without a staged request, a track seeded
\* through GetTrack and SetPendingTrack included: when Play returns its
\* pending clip is "silence" if the track holds such a clip and none
\* otherwise, and in the first render call the track renders "silence" or
\* nothing, never the seeded clip, unless "silence" is what was seeded.
C34_SeedSilencedByPlay ==
  /\ [][last'.op = "Play" =>
          \A T \in DOMAIN seeded \ Staged :
            m_mapTracks'[T].m_pPendingClip =
              IF HasClip(m_mapTracks[T], SilenceName) THEN SilenceName ELSE NoClip]_vars
  /\ [][(FirstRenderCall /\ last'.op = "GetAudio" /\ rcur \in DOMAIN seeded) =>
          IF HasClip(m_mapTracks[rcur], SilenceName)
          THEN last'.ret /\ m_mapTracks'[rcur].m_pPendingTrack = SilenceName
          ELSE ~last'.ret /\ m_mapTracks'[rcur].m_pPendingTrack = NoClip]_vars

\* the first render call has found nothing to render on a track that was
\* seeded with a clip it holds before Play
C34_Witness ==
  /\ playing
  /\ m_nLastSamplePos = 0
  /\ ~wrapped
  /\ last.op = "GetAudio"
  /\ ~last.ret
  /\ last.clips[1] \in DOMAIN seeded
  /\ seeded[last.clips[1]] # SilenceName
  /\ HasClip(m_mapTracks[last.clips[1]], seeded[last.clips[1]])


\* the render thread is inside the loop over the track map of onGetData,
\* lines 361-362, or inside a track's GetAudio
RenderIterating == rpc \in {"tracks", "fade"}

\* C35: AddTrack never changes the mixer's track map while the render thread
\* is iterating the track map or reading a clip in GetAudio.
C35_NoRaceOnCollections ==
  [][(last'.op = "AddTrack" /\ m_mapTracks' # m_mapTracks) => ~RenderIterating]_vars

====
